---- MODULE Spec2Model ----
(***************************************************************************)
(* Model of the nanoPK telnet -> MQTT bridge (src/app.py).                 *)
(*                                                                         *)
(* Numbers are fixed-point: one unit is half of FLOAT_EPS, so a Python     *)
(* int n is n * One units and a float is any number of units.  Telemetry   *)
(* values are finite decimals.  Status labels are written in ASCII.        *)
(* Every call of the bus client's publish has one of three outcomes:       *)
(* "ok", "err" (a non-zero return code, which the code never looks at) or  *)
(* "raise" (an exception).                                                 *)
(***************************************************************************)
EXTENDS Integers, Sequences, FiniteSets, TLC

VARIABLES
    pc,           \* position of the worker in Bridge.start
    running,      \* self.running
    mqtt,         \* self.mqtt: "none", "connected", "disconnected"
    tn,           \* self.tn: "none", "open", "closed"
    last_values,  \* self.last_values (NoVal where the dict has no key)
    delay,        \* local delay of connect_telnet_with_backoff
    source,       \* the telemetry source: "up" or "down"
    exitCode,     \* status of sys.exit, -1 while the process lives
    fails,        \* history: failed attempts of the current backoff call
    slept,        \* history: the last time.sleep of the current backoff call
    tick,         \* history: parity of the failed attempts of the backoff call
    events,       \* history: bus publishes attempted by the last step
    lastOp,       \* history: the last step and its input
    reconLog,     \* history: status publishes of the last Reconnecting pass
    cleanupLog,   \* history: cleanup calls attempted, and those that raised
    script,       \* the line a scripted source repeats, or AnyLine
    rep,          \* history: value publishes for the first two scripted lines
    entries,      \* the channel map the process has loaded
    will,         \* the last will registered with the bus client
    discoveries,  \* history: completed calls of send_discovery
    seen,         \* history: the payloads of the line read by the last step
    attempted,    \* history: the last status payload handed to publish
    delivered     \* history: the last status payload whose publish succeeded

vars == <<pc, running, mqtt, tn, last_values, delay, source, exitCode, fails,
          slept, tick, events, lastOp, reconLog, cleanupLog, script, rep,
          entries, will, discoveries, seen, attempted, delivered>>

-----------------------------------------------------------------------------
(* Bounds *)

MaxLen == 3     \* longest telemetry line, in tokens after the marker
MaxFail == 7    \* the failed-attempt counter saturates here

-----------------------------------------------------------------------------
(* Configuration and constants *)

FLOAT_EPS == 2
One == 1000 * FLOAT_EPS
BackoffCap == 30

ZK_STATUS_MAP ==
    0 :> "Unbekannt" @@ 1 :> "Aus" @@ 2 :> "Startvorbereitung" @@
    3 :> "Kessel Start" @@ 4 :> "Zuenduberwachung" @@ 5 :> "Zuendung" @@
    6 :> "Uebergang LB" @@ 7 :> "Leistungsbrand" @@ 8 :> "Gluterhaltung" @@
    9 :> "Warten auf EA" @@ 10 :> "Entaschung" @@ 11 :> "-" @@
    12 :> "Putzen"

channel_map ==
    0 :> [alias |-> "zk_status", label |-> <<"Kessel", "Status">>, unit |-> ""] @@
    1 :> [alias |-> "kessel_temp", label |-> <<"Kessel", "Temperatur">>, unit |-> "C"]

Mapped == DOMAIN channel_map

-----------------------------------------------------------------------------
(* Values *)

NoVal == [t |-> "none", v |-> 0, s |-> ""]
IntVal(n) == [t |-> "int", v |-> n * One, s |-> ""]
FloatVal(u) == [t |-> "float", v |-> u, s |-> ""]
StrVal(x) == [t |-> "str", v |-> 0, s |-> x]

IsFloat(a) == a.t = "float"
Abs(x) == IF x < 0 THEN -x ELSE x
Min(a, b) == IF a < b THEN a ELSE b

(* Tokens of a telemetry line: an integer literal, a literal with a        *)
(* decimal point (in units), or a token that is not a number.              *)
IntTok(n) == [k |-> "int", v |-> n]
FloatTok(u) == [k |-> "float", v |-> u]
BadTok == [k |-> "bad", v |-> 0]

Tokens == {IntTok(1), IntTok(99), FloatTok(One), FloatTok(One + 1),
           FloatTok(One + 2), BadTok}
PadTokens == {IntTok(1)}

(* The tokens tried at the status position: codes that are an int or a     *)
(* float, known or unknown, and a token that is no number.                 *)
StatusTokens == {IntTok(1), IntTok(99), FloatTok(One), BadTok}

Outcomes == {"ok", "err", "raise"}

(* Results of self.tn.read_until(b"\n", timeout=5) *)
ReadFail == [kind |-> "fail", head |-> "", toks |-> <<>>]
ReadTimeout == [kind |-> "timeout", head |-> "", toks |-> <<>>]
BlankLine == [kind |-> "line", head |-> "", toks |-> <<>>]
AnyLine == [kind |-> "any", head |-> "", toks |-> <<>>]

TokenSeqs ==
    UNION {{q \in [1..n -> Tokens \cup PadTokens] :
               /\ q[1] \in StatusTokens
               /\ \A i \in 1..n : (i - 1) \notin Mapped => q[i] \in PadTokens}
           : n \in 1..MaxLen}
PmLines == {[kind |-> "line", head |-> "pm", toks |-> q] : q \in TokenSeqs}
OtherLines == {BlankLine,
               [kind |-> "line", head |-> "pm", toks |-> <<>>],
               [kind |-> "line", head |-> "xx", toks |-> <<IntTok(1)>>]}
ReadResults == {ReadFail, ReadTimeout} \cup OtherLines \cup PmLines

-----------------------------------------------------------------------------
(* Helpers *)

In(word, name) == \E i \in 1..Len(name) : name[i] = word

get_device_class_flat(name, unit) ==
    IF unit = "C" THEN "temperature"
    ELSE IF unit = "%" /\ (In("Feuchte", name) \/ In("Luftfeuchte", name))
         THEN "humidity"
    ELSE IF unit = "bar" THEN "pressure"
    ELSE IF In("Leistung", name) THEN "power"
    ELSE ""

get_device_class(name, unit) ==
    IF unit = "C" THEN "temperature"
    ELSE IF unit = "%"
         THEN (IF In("Feuchte", name) \/ In("Luftfeuchte", name)
               THEN "humidity" ELSE "")
    ELSE IF unit = "bar" THEN "pressure"
    ELSE IF In("Leistung", name) THEN "power"
    ELSE ""

almost_equal_exact(a, b) == a = b

almost_equal_inclusive(a, b) ==
    IF IsFloat(a) \/ IsFloat(b)
    THEN IF a.t = "str" \/ b.t = "str"
         THEN FALSE
         ELSE Abs(a.v - b.v) <= FLOAT_EPS
    ELSE a = b

almost_equal(a, b) ==
    IF IsFloat(a) \/ IsFloat(b)
    THEN IF a.t = "str" \/ b.t = "str"
         THEN FALSE
         ELSE Abs(a.v - b.v) < FLOAT_EPS
    ELSE a = b

parse_token(tok) ==
    IF tok.k = "float" THEN FloatVal(tok.v)
    ELSE IF tok.k = "int" THEN IntVal(tok.v)
    ELSE NoVal

parse_pm_line_all_or_nothing(line) ==
    IF line.head # "pm" THEN <<>>
    ELSE IF Len(line.toks) + 1 < 2 THEN <<>>
    ELSE IF \E i \in 1..Len(line.toks) : line.toks[i].k = "bad" THEN <<>>
    ELSE [i \in 1..Len(line.toks) |-> parse_token(line.toks[i])]

(* None is the empty sequence: a returned list always has an element. *)
parse_pm_line(line) ==
    IF line.head # "pm" THEN <<>>
    ELSE IF Len(line.toks) + 1 < 2 THEN <<>>
    ELSE [i \in 1..Len(line.toks) |-> parse_token(line.toks[i])]

status_payload_no_default(val) ==
    IF \E c \in DOMAIN ZK_STATUS_MAP : val.v = c * One
    THEN StrVal(ZK_STATUS_MAP[CHOOSE c \in DOMAIN ZK_STATUS_MAP : val.v = c * One])
    ELSE NoVal

(* ZK_STATUS_MAP.get(val, ZK_STATUS_MAP[0]): an int or float key finds the *)
(* entry it is numerically equal to.                                       *)
status_payload(val) ==
    IF \E c \in DOMAIN ZK_STATUS_MAP : val.v = c * One
    THEN StrVal(ZK_STATUS_MAP[CHOOSE c \in DOMAIN ZK_STATUS_MAP : val.v = c * One])
    ELSE StrVal(ZK_STATUS_MAP[0])

translate(idx, val) == IF idx = 0 THEN status_payload(val) ELSE val

Ev(topic, idx, payload, prior, out, link) ==
    [topic |-> topic, idx |-> idx, payload |-> payload, prior |-> prior,
     out |-> out, link |-> link, keys |-> {}]

StatusEv(text, out, link) == Ev("status", -1, StrVal(text), NoVal, out, link)

(* The for loop over enumerate(values): the set of its possible results,   *)
(* one for every outcome of every publish it makes.                        *)
RECURSIVE publish_values_track_seen(_, _, _, _)
publish_values_track_seen(values, idx, cache, evs) ==
    IF idx >= Len(values)
    THEN {[cache |-> cache, events |-> evs, raised |-> FALSE]}
    ELSE LET val == values[idx + 1] IN
         IF idx \notin Mapped \/ val = NoVal
         THEN publish_values_track_seen(values, idx + 1, cache, evs)
         ELSE LET payload == translate(idx, val)
                  last == cache[idx]
                  ev(out) == Ev("value", idx, payload, last, out, "open")
              IN IF last # NoVal /\ almost_equal(last, payload)
                 THEN publish_values_track_seen(values, idx + 1,
                                                [cache EXCEPT ![idx] = payload], evs)
                 ELSE UNION {
                        IF out = "raise"
                        THEN {[cache |-> cache, events |-> Append(evs, ev(out)),
                               raised |-> TRUE]}
                        ELSE publish_values_track_seen(values, idx + 1,
                                            [cache EXCEPT ![idx] = payload],
                                            Append(evs, ev(out)))
                        : out \in Outcomes}

RECURSIVE publish_values(_, _, _, _)
publish_values(values, idx, cache, evs) ==
    IF idx >= Len(values)
    THEN {[cache |-> cache, events |-> evs, raised |-> FALSE]}
    ELSE LET val == values[idx + 1] IN
         IF idx \notin Mapped \/ val = NoVal
         THEN publish_values(values, idx + 1, cache, evs)
         ELSE LET payload == translate(idx, val)
                  last == cache[idx]
                  ev(out) == Ev("value", idx, payload, last, out, "open")
              IN IF last # NoVal /\ almost_equal(last, payload)
                 THEN publish_values(values, idx + 1, cache, evs)
                 ELSE UNION {
                        IF out = "raise"
                        THEN {[cache |-> cache, events |-> Append(evs, ev(out)),
                               raised |-> TRUE]}
                        ELSE publish_values(values, idx + 1,
                                            [cache EXCEPT ![idx] = payload],
                                            Append(evs, ev(out)))
                        : out \in Outcomes}

(* The payload of every mapped index of a decoded line, NoVal where the    *)
(* line has no value for it.                                               *)
line_payloads(values) ==
    [i \in Mapped |-> IF i < Len(values) /\ values[i + 1] # NoVal
                      THEN translate(i, values[i + 1])
                      ELSE NoVal]

(* The last status payload among evs (among those published with success,  *)
(* if okOnly), or cur if there is none.                                    *)
LastStatus(evs, cur, okOnly) ==
    LET I == {i \in 1..Len(evs) : /\ evs[i].topic = "status"
                                  /\ (okOnly => evs[i].out = "ok")}
    IN IF I = {} THEN cur
       ELSE evs[CHOOSE i \in I : \A j \in I : j <= i].payload.s

-----------------------------------------------------------------------------
(* MQTT *)

(* mqtt_connect: conn is the outcome of client.connect, birth that of the  *)
(* birth publish.  An exception of either makes it return None.            *)
mqtt_connect_unchecked(conn, birth) ==
    [client |-> "connected", events |-> <<StatusEv("online", birth, "none")>>]

mqtt_connect(conn, birth) ==
    IF conn = "fail"
    THEN [client |-> "none", events |-> <<>>]
    ELSE IF birth = "raise"
    THEN [client |-> "none",
          events |-> <<StatusEv("online", birth, "none")>>]
    ELSE [client |-> "connected",
          events |-> <<StatusEv("online", birth, "none")>>]

RECURSIVE SortedIdx(_)
SortedIdx(S) ==
    IF S = {} THEN <<>>
    ELSE LET m == CHOOSE x \in S : \A y \in S : x <= y
         IN <<m>> \o SortedIdx(S \ {m})

BaseKeys == {"name", "state_topic", "unique_id", "device", "availability"}

sensor_descriptor(idx) ==
    LET entry == entries[idx]
        dc == get_device_class(entry.label, entry.unit)
        keys == IF idx # 0
                THEN BaseKeys \cup {"unit_of_measurement", "state_class"}
                     \cup (IF dc # "" THEN {"device_class"} ELSE {})
                ELSE BaseKeys
    IN [Ev("discovery", idx, StrVal(entry.alias), NoVal, "ok", "none")
          EXCEPT !.keys = keys]

connectivity_descriptor ==
    [Ev("discovery", -1, StrVal("nano_pk_status"), NoVal, "ok", "none")
       EXCEPT !.keys = BaseKeys \cup {"payload_on", "payload_off", "device_class"}]

Descriptors ==
    LET order == SortedIdx(Mapped)
    IN [i \in 1..Len(order) |-> sensor_descriptor(order[i])]
       \o <<connectivity_descriptor>>

(* send_discovery: the first n publishes return; the next one, if there is *)
(* one, raises, and nothing catches it.                                    *)
send_discovery(n) ==
    IF n >= Len(Descriptors)
    THEN [events |-> Descriptors, raised |-> FALSE]
    ELSE [events |-> SubSeq(Descriptors, 1, n)
                     \o <<[Descriptors[n + 1] EXCEPT !.out = "raise"]>>,
          raised |-> TRUE]

-----------------------------------------------------------------------------
(* Telnet *)

next_delay_late_cap(d) == Min(d * 2, 2 * BackoffCap)

next_delay(d) == Min(d * 2, BackoffCap)

(* The entry of connect_telnet_with_backoff *)
EnterBackoff ==
    /\ delay' = 1
    /\ fails' = 0
    /\ slept' = 0

-----------------------------------------------------------------------------
(* Bridge *)

NoRep == [n |-> 0, first |-> {}, second |-> {}]
NoCleanup == [tried |-> <<>>, raised |-> {}]
EmptyCache == [i \in Mapped |-> NoVal]

InitBridge ==
    /\ pc = "init"
    /\ running = TRUE
    /\ mqtt = "none"
    /\ tn = "none"
    /\ last_values = EmptyCache
    /\ delay = 0
    /\ source \in {"up", "down"}
    /\ exitCode = -1
    /\ fails = 0
    /\ slept = 0
    /\ tick = 0
    /\ events = <<>>
    /\ lastOp = [act |-> "none", arg |-> ""]
    /\ reconLog = <<>>
    /\ cleanupLog = NoCleanup
    /\ rep = NoRep
    /\ will = "none"
    /\ discoveries = 0
    /\ seen = EmptyCache
    /\ attempted = "none"
    /\ delivered = "none"

Init == InitBridge /\ script = AnyLine /\ entries = channel_map

(* The bridge in front of a source that sends one line over and over *)
InitRepeat == InitBridge /\ script \in PmLines /\ entries = channel_map

(* What every step does to the history of the status topic *)
Track ==
    /\ attempted' = LastStatus(events', attempted, FALSE)
    /\ delivered' = LastStatus(events', delivered, TRUE)

(* The publishes of start before the telnet connect: mqtt_connect, then    *)
(* send_discovery.                                                         *)
start_events_discovery_first(conn_events, disc_events) ==
    disc_events \o conn_events

start_events(conn_events, disc_events) == conn_events \o disc_events

(* Bridge.start up to the call of connect_telnet_with_backoff *)
Start ==
    /\ pc = "init"
    /\ \E conn \in {"ok", "fail"}, birth \in Outcomes, n \in 0..Len(Descriptors) :
         LET c == mqtt_connect(conn, birth)
             d == send_discovery(n)
         IN /\ lastOp' = [act |-> "Start", arg |-> conn]
            /\ mqtt' = c.client
            /\ IF c.client = "none"
               THEN /\ pc' = "exited"
                    /\ exitCode' = 1
                    /\ events' = c.events
                    /\ UNCHANGED <<delay, fails, slept, discoveries>>
               ELSE IF d.raised
               THEN /\ pc' = "crashed"
                    /\ exitCode' = 1
                    /\ events' = start_events(c.events, d.events)
                    /\ UNCHANGED <<delay, fails, slept, discoveries>>
               ELSE /\ pc' = "connecting"
                    /\ events' = start_events(c.events, d.events)
                    /\ discoveries' = discoveries + 1
                    /\ EnterBackoff
                    /\ UNCHANGED exitCode
    /\ will' = "offline"
    /\ Track
    /\ seen' = EmptyCache
    /\ UNCHANGED <<running, tn, last_values, source, tick, reconLog,
                   cleanupLog, script, rep, entries>>

ConnectAttempt_fresh_cache ==
    /\ pc \in {"connecting", "reconnecting"}
    /\ tick' = (IF source = "up" THEN 0 ELSE 1 - tick)
    /\ IF source = "up"
       THEN /\ tn' = "open"
            /\ pc' = "running"
            /\ lastOp' = [act |-> "ConnectAttempt", arg |-> "ok"]
            /\ IF pc = "reconnecting"
               THEN \E out \in Outcomes :
                      /\ events' = <<StatusEv("online", out, "open")>>
                      /\ reconLog' = Append(reconLog, "online")
               ELSE /\ events' = <<>>
                    /\ UNCHANGED reconLog
            /\ UNCHANGED <<delay, fails, slept>>
       ELSE /\ slept' = delay
            /\ delay' = next_delay(delay)
            /\ fails' = Min(fails + 1, MaxFail)
            /\ lastOp' = [act |-> "ConnectAttempt", arg |-> "fail"]
            /\ events' = <<>>
            /\ UNCHANGED <<tn, pc, reconLog>>
    /\ Track
    /\ seen' = EmptyCache
    /\ last_values' = (IF source = "up" /\ pc = "reconnecting"
                       THEN EmptyCache ELSE last_values)
    /\ UNCHANGED <<running, mqtt, source, exitCode, cleanupLog,
                   script, rep, entries, will, discoveries>>

(* One pass of the while True loop of connect_telnet_with_backoff, and on  *)
(* success the rest of the caller up to the head of the read loop.         *)
ConnectAttempt ==
    /\ pc \in {"connecting", "reconnecting"}
    /\ tick' = (IF source = "up" THEN 0 ELSE 1 - tick)
    /\ IF source = "up"
       THEN /\ tn' = "open"
            /\ pc' = "running"
            /\ lastOp' = [act |-> "ConnectAttempt", arg |-> "ok"]
            /\ IF pc = "reconnecting"
               THEN \E out \in Outcomes :
                      /\ events' = <<StatusEv("online", out, "open")>>
                      /\ reconLog' = Append(reconLog, "online")
               ELSE /\ events' = <<>>
                    /\ UNCHANGED reconLog
            /\ UNCHANGED <<delay, fails, slept>>
       ELSE /\ slept' = delay
            /\ delay' = next_delay(delay)
            /\ fails' = Min(fails + 1, MaxFail)
            /\ lastOp' = [act |-> "ConnectAttempt", arg |-> "fail"]
            /\ events' = <<>>
            /\ UNCHANGED <<tn, pc, reconLog>>
    /\ Track
    /\ seen' = EmptyCache
    /\ UNCHANGED <<running, mqtt, last_values, source, exitCode, cleanupLog,
                   script, rep, entries, will, discoveries>>

(* The except branch of the read loop up to the call of                    *)
(* connect_telnet_with_backoff; evs are the publishes made before it.      *)
ExceptHandler_silent(evs, closeOut, offOut) ==
    /\ tn' = IF closeOut = "ok" THEN "closed" ELSE "stale"
    /\ events' = evs
    /\ reconLog' = <<>>
    /\ pc' = "reconnecting"
    /\ EnterBackoff

ExceptHandler_keeps_link(evs, closeOut, offOut) ==
    /\ tn' = tn
    /\ events' = Append(evs, StatusEv("offline", offOut, "closed"))
    /\ reconLog' = <<"offline">>
    /\ pc' = "reconnecting"
    /\ EnterBackoff

ExceptHandler(evs, closeOut, offOut) ==
    /\ tn' = IF closeOut = "ok" THEN "closed" ELSE "stale"
    /\ events' = Append(evs, StatusEv("offline", offOut, "closed"))
    /\ reconLog' = <<"offline">>
    /\ pc' = "reconnecting"
    /\ EnterBackoff

ReadIsError_or_empty(r) == r.kind \in {"fail", "timeout"}

(* read_until raises *)
ReadIsError(r) == r.kind = "fail"

(* not raw *)
ReadIsEmpty(r) == r.kind = "timeout"

Reads ==
    IF source = "down" THEN {ReadFail, ReadTimeout}
    ELSE IF script # AnyLine THEN {script, ReadFail, ReadTimeout}
    ELSE ReadResults

Count(r, evs) ==
    IF script = AnyLine \/ r # script \/ rep.n >= 2 THEN rep
    ELSE LET pub == {evs[i].idx : i \in {j \in 1..Len(evs) : evs[j].topic = "value"}}
         IN IF rep.n = 0
            THEN [rep EXCEPT !.n = 1, !.first = pub]
            ELSE [rep EXCEPT !.n = 2, !.second = pub]

(* One pass of the while self.running loop *)
Loop ==
    /\ pc = "running"
    /\ running
    /\ \E r \in Reads :
       /\ lastOp' = [act |-> "Loop", arg |-> r.kind]
       /\ IF ReadIsError(r)
         THEN /\ \E closeOut \in {"ok", "raise"}, offOut \in Outcomes :
                   ExceptHandler(<<>>, closeOut, offOut)
              /\ seen' = EmptyCache
              /\ UNCHANGED <<last_values, rep>>
         ELSE IF ReadIsEmpty(r)
         THEN /\ events' = <<>>
              /\ seen' = EmptyCache
              /\ UNCHANGED <<tn, pc, delay, fails, slept, reconLog,
                             last_values, rep>>
         ELSE IF parse_pm_line(r) = <<>>
         THEN /\ events' = <<>>
              /\ seen' = EmptyCache
              /\ UNCHANGED <<tn, pc, delay, fails, slept, reconLog,
                             last_values, rep>>
         ELSE \E res \in publish_values(parse_pm_line(r), 0, last_values, <<>>) :
                 /\ last_values' = res.cache
                 /\ seen' = line_payloads(parse_pm_line(r))
                 /\ rep' = Count(r, res.events)
                 /\ IF res.raised
                    THEN \E closeOut \in {"ok", "raise"}, offOut \in Outcomes :
                           ExceptHandler(res.events, closeOut, offOut)
                    ELSE /\ events' = res.events
                         /\ UNCHANGED <<tn, pc, delay, fails, slept, reconLog>>
    /\ Track
    /\ UNCHANGED <<running, mqtt, source, exitCode, tick, cleanupLog, script,
                   entries, will, discoveries>>

(* The calls Bridge.cleanup attempts, given which of them raise *)
cleanup_tried_one_try(pubOut, closeOut, stopOut) ==
    IF pubOut = "raise" THEN <<"publish">>
    ELSE IF closeOut = "raise" THEN <<"publish", "close">>
    ELSE <<"publish", "close", "loop_stop">>
         \o (IF stopOut = "ok" THEN <<"disconnect">> ELSE <<>>)

cleanup_tried(pubOut, closeOut, stopOut) ==
    <<"publish", "close", "loop_stop">>
    \o (IF stopOut = "ok" THEN <<"disconnect">> ELSE <<>>)

(* The publish of Bridge.cleanup *)
cleanup_events_none(pubOut, link) == <<>>

cleanup_events(pubOut, link) == <<StatusEv("offline", pubOut, link)>>

(* Bridge.cleanup, reached when the loop condition is false; lastOp keeps  *)
(* the step after which the loop condition was found false.                *)
Cleanup ==
    /\ pc = "running"
    /\ ~running
    /\ \E pubOut \in Outcomes, closeOut \in {"ok", "raise"},
          stopOut \in {"ok", "raise"}, discOut \in {"ok", "raise"} :
         /\ events' = cleanup_events(pubOut, tn)
         /\ tn' = IF closeOut = "ok" THEN "closed" ELSE "stale"
         /\ mqtt' = IF stopOut = "ok" /\ discOut = "ok"
                    THEN "disconnected" ELSE mqtt
         /\ cleanupLog' =
              [tried |-> cleanup_tried(pubOut, closeOut, stopOut),
               raised |-> (IF pubOut = "raise" THEN {"publish"} ELSE {})
                          \cup (IF closeOut = "raise" THEN {"close"} ELSE {})
                          \cup (IF stopOut = "raise" THEN {"loop_stop"}
                                ELSE IF discOut = "raise" THEN {"disconnect"}
                                ELSE {})]
    /\ pc' = "stopped"
    /\ lastOp' = [act |-> "Cleanup", arg |-> lastOp.act]
    /\ Track
    /\ UNCHANGED <<running, last_values, delay, source, exitCode, fails,
                   slept, tick, reconLog, script, rep, entries, will,
                   discoveries>>
    /\ seen' = EmptyCache

(* Bridge.stop, the handler of SIGINT and SIGTERM *)
Stop ==
    /\ pc \in {"connecting", "running", "reconnecting"}
    /\ running
    /\ running' = FALSE
    /\ lastOp' = [act |-> "Stop", arg |-> ""]
    /\ events' = <<>>
    /\ UNCHANGED <<pc, mqtt, tn, last_values, delay, source, exitCode, fails,
                   slept, tick, reconLog, cleanupLog, script, rep, entries,
                   will, discoveries, attempted, delivered>>
    /\ seen' = EmptyCache

(* The telemetry source becomes reachable or unreachable.  The bridge can  *)
(* tell only while it is connecting: an open link shows the state of the   *)
(* source through what read_until does, and every read can fail.           *)
SourceFlip ==
    /\ pc \in {"connecting", "reconnecting"}
    /\ source' = IF source = "up" THEN "down" ELSE "up"
    /\ lastOp' = [act |-> "SourceFlip", arg |-> ""]
    /\ events' = <<>>
    /\ UNCHANGED <<pc, running, mqtt, tn, last_values, delay, exitCode, fails,
                   slept, tick, reconLog, cleanupLog, script, rep, entries,
                   will, discoveries, attempted, delivered>>
    /\ seen' = EmptyCache

Next ==
    \/ Start
    \/ ConnectAttempt
    \/ Loop
    \/ Cleanup
    \/ Stop
    \/ SourceFlip

Spec == Init /\ [][Next]_vars

(* The worker thread keeps running: each of its steps is taken if it stays *)
(* possible.  Nothing is assumed of the source or of the signals.          *)
Worker == Start \/ ConnectAttempt \/ Loop \/ Cleanup

FairSpec == Spec /\ WF_vars(Worker)

(* One line for the scripted source: a status code and a temperature *)
OneLine == [kind |-> "line", head |-> "pm",
            toks |-> <<IntTok(1), FloatTok(One + 1)>>]

InitOne == InitBridge /\ script = OneLine /\ entries = channel_map

FairOne == InitOne /\ [][Next]_vars /\ WF_vars(Worker)

(* The bridge in front of a source that repeats one status code: every     *)
(* code from below 0 to above 12 as an int, and some codes as a float.     *)
StatusCodeTokens ==
    {IntTok(c) : c \in (0 - 3)..15} \cup {IntTok(99)}
    \cup {FloatTok(0), FloatTok(3 * One), FloatTok(3 * One + 1),
          FloatTok(12 * One), FloatTok(13 * One)}

InitStatus ==
    /\ InitBridge
    /\ entries = channel_map
    /\ script \in {[kind |-> "line", head |-> "pm", toks |-> <<tok>>] :
                      tok \in StatusCodeTokens}

SpecStatus == InitStatus /\ [][Next]_vars

SpecRepeat == InitRepeat /\ [][Next]_vars

(* The bridge with other channel maps: the status entry with and without a *)
(* unit, and a numeric entry of every branch of get_device_class.          *)
StatusEntries ==
    {[alias |-> "zk_status", label |-> <<"Kessel", "Status">>, unit |-> u] :
        u \in {"", "C"}}

NumericEntries ==
    {[alias |-> "kanal", label |-> l, unit |-> u] :
        l \in {<<"Kessel">>, <<"Luftfeuchte">>, <<"Kessel", "Leistung">>},
        u \in {"", "C", "%", "bar", "kW"}}

ChannelMaps == {0 :> e0 @@ 1 :> e1 : e0 \in StatusEntries, e1 \in NumericEntries}

InitDiscovery == InitBridge /\ script = OneLine /\ entries \in ChannelMaps

SpecDiscovery == InitDiscovery /\ [][Next]_vars

-----------------------------------------------------------------------------
(* Properties *)

RECURSIVE Pow2(_)
Pow2(n) == IF n = 0 THEN 1 ELSE 2 * Pow2(n - 1)

EvIdx(topic) == {i \in 1..Len(events) : events[i].topic = topic}
ValueEvents == {events[i] : i \in EvIdx("value")}
StatusTexts == [i \in 1..Len(events) |-> events[i].payload.s]
InBackoff(p) == p \in {"connecting", "reconnecting"}

(* The comparison rule of the Change Filter: a difference of at least the  *)
(* tolerance when one of the two is a float, inequality otherwise.         *)
Differs(cached, new) ==
    IF IsFloat(cached) \/ IsFloat(new)
    THEN Abs(cached.v - new.v) >= FLOAT_EPS
    ELSE cached.t # new.t \/ cached.v # new.v \/ cached.s # new.s

(* C1: every value publish is for an index that had no cached value, or    *)
(* whose cached value differs from the payload under the comparison rule.  *)
C1_PublishOnlyOnChange ==
    \A e \in ValueEvents : e.prior = NoVal \/ Differs(e.prior, e.payload)

(* A float was published over a cached number it differs from by at least *)
(* the tolerance.                                                          *)
C1_Witness ==
    \E e \in ValueEvents :
        e.prior # NoVal /\ IsFloat(e.payload) /\ e.idx # 0
        /\ Abs(e.prior.v - e.payload.v) = FLOAT_EPS

(* C2: a value publish that fails in Running leaves the bridge in Running  *)
(* with the Terminal Link open, and no "offline" is published for it.      *)
C2_BusFailureKeepsLink ==
    (lastOp.act = "Loop" /\ \E e \in ValueEvents : e.out # "ok")
        => /\ pc = "running"
           /\ tn = "open"
           /\ \A i \in EvIdx("status") : events[i].payload.s # "offline"

(* C3: once a stop request has arrived, the bridge eventually is Stopped,  *)
(* whatever the telemetry source does.                                     *)
C3_StopLeadsToStopped ==
    (~running /\ pc \in {"connecting", "running", "reconnecting"})
        ~> (pc = "stopped")

(* C4: a read failure publishes "offline" once and nothing else; the       *)
(* failed connect attempts that follow publish nothing; the attempt that   *)
(* succeeds publishes "online" once, with the link open, and the bridge is *)
(* in Running again.  (A publish is a call of publish, whatever it        *)
(* returns.)                                                               *)
C4_OneOfflineOneOnline ==
    /\ pc = "reconnecting" => reconLog = <<"offline">> /\ tn # "open"
    /\ (pc \in {"running", "stopped"} /\ reconLog # <<>>)
          => reconLog = <<"offline", "online">>
    /\ (lastOp = [act |-> "Loop", arg |-> "fail"])
          => pc = "reconnecting" /\ StatusTexts = <<"offline">>
    /\ (lastOp = [act |-> "ConnectAttempt", arg |-> "fail"])
          => events = <<>>
    /\ (lastOp = [act |-> "ConnectAttempt", arg |-> "ok"] /\ reconLog # <<>>)
          => /\ pc = "running"
             /\ tn = "open"
             /\ StatusTexts = <<"online">>
             /\ events[1].link = "open"

(* A line is published after a reconnect that took three attempts. *)
C4_Witness ==
    /\ reconLog = <<"offline", "online">>
    /\ fails >= 2
    /\ lastOp = [act |-> "Loop", arg |-> "line"]
    /\ ValueEvents # {}
    /\ pc = "running"

(* C5: an index whose publish succeeded holds the payload, and an index    *)
(* whose publish did not succeed holds what it held before.                *)
C5_CacheOnlyAfterSuccess ==
    \A e \in ValueEvents :
        /\ e.out = "ok" => last_values[e.idx] = e.payload
        /\ e.out # "ok" => last_values[e.idx] = e.prior

(* C6: inside connect_telnet_with_backoff, after k failed attempts the     *)
(* last wait was min(2^(k-1), 30) and the next is min(2^k, 30); a call     *)
(* starts with delay 1, the delay never decreases during a call, and the   *)
(* call is left only with an open connection.                              *)
C6_Backoff ==
    [][/\ InBackoff(pc') =>
            /\ delay' = Min(Pow2(fails'), BackoffCap)
            /\ fails' >= 1 => slept' = Min(Pow2(fails' - 1), BackoffCap)
            /\ fails' = 0 => slept' = 0 /\ delay' = 1
            /\ delay' <= BackoffCap
       /\ (InBackoff(pc) /\ pc' = pc /\ lastOp'.act = "ConnectAttempt")
            => delay' >= delay /\ slept' = delay
       /\ (InBackoff(pc) /\ ~InBackoff(pc'))
            => tn' = "open" /\ pc' = "running"
       /\ (~InBackoff(pc) /\ InBackoff(pc')) => delay' = 1 /\ fails' = 0]_vars

(* The delay has reached the cap and stayed there. *)
C6_Witness ==
    InBackoff(pc) /\ fails = MaxFail /\ delay = BackoffCap /\ slept = BackoffCap

(* C7: a failed bus connect ends the process with status 1 before anything *)
(* is published or connected.                                              *)
C7_BusConnectFailureFatal ==
    (lastOp = [act |-> "Start", arg |-> "fail"])
        => /\ pc = "exited"
           /\ exitCode = 1
           /\ events = <<>>
           /\ mqtt = "none"
           /\ tn = "none"

C7_Witness ==
    lastOp = [act |-> "Start", arg |-> "fail"] /\ pc = "exited"

(* C8: cleanup attempts the status publish, the close of the Terminal Link *)
(* and the stop of the Bus Link whichever of them raise, and ends in       *)
(* Stopped.                                                                *)
C8_CleanupBestEffort ==
    lastOp.act = "Cleanup"
        => /\ pc = "stopped"
           /\ exitCode = -1
           /\ {"publish", "close", "loop_stop"}
                \subseteq {cleanupLog.tried[i] : i \in 1..Len(cleanupLog.tried)}
           /\ StatusTexts = <<"offline">>

(* All three steps raised and all three were attempted. *)
C8_Witness ==
    /\ lastOp.act = "Cleanup"
    /\ cleanupLog.raised = {"publish", "close", "loop_stop"}
    /\ Len(cleanupLog.tried) = 3

(* C9: a read that times out changes neither the Terminal Link nor the     *)
(* cache, publishes nothing and leaves the bridge in Running.              *)
C9_TimeoutIsNoOp ==
    [][(lastOp' = [act |-> "Loop", arg |-> "timeout"])
          => /\ tn = "open" /\ tn' = "open"
             /\ last_values' = last_values
             /\ events' = <<>>
             /\ pc' = "running"
             /\ reconLog' = reconLog]_vars

(* A timeout with a value in the cache. *)
C9_Witness ==
    /\ lastOp = [act |-> "Loop", arg |-> "timeout"]
    /\ last_values # EmptyCache
    /\ pc = "running"

(* C10: after the scripted line has been read twice, every mapped index    *)
(* with a value in it was published at the first read and not at the       *)
(* second.                                                                 *)
C10_SameLineTwice ==
    rep.n = 2 =>
        \A idx \in Mapped :
            (idx < Len(script.toks) /\ parse_token(script.toks[idx + 1]) # NoVal)
                => idx \in rep.first /\ idx \notin rep.second

SameValue(a, b) ==
    /\ a.t # "none" /\ b.t # "none"
    /\ (a.t = "str") = (b.t = "str")
    /\ a.v = b.v /\ a.s = b.s

(* C11: no step empties a cache entry; an entry changes only in a step     *)
(* that processes a telemetry line and publishes that entry's new value;   *)
(* reconnects, timeouts, read failures and stop requests leave the cache   *)
(* as it is; and no value is published that equals the cached one.        *)
C11_CacheNeverCleared ==
    [][/\ \A i \in Mapped :
            /\ last_values[i] # NoVal => last_values'[i] # NoVal
            /\ last_values'[i] # last_values[i]
                  => /\ lastOp' = [act |-> "Loop", arg |-> "line"]
                     /\ \E e \in ValueEvents' :
                           e.idx = i /\ e.payload = last_values'[i]
       /\ (\/ lastOp'.act \in {"ConnectAttempt", "Stop", "Cleanup", "SourceFlip"}
           \/ lastOp'.arg \in {"fail", "timeout"})
            => last_values' = last_values
       /\ \A e \in ValueEvents' :
            /\ e.prior = last_values[e.idx]
            /\ ~SameValue(e.payload, last_values[e.idx])]_vars

(* After a reconnect a line brings a value equal to the cached one and     *)
(* nothing is published.                                                   *)
C11_Witness ==
    /\ reconLog = <<"offline", "online">>
    /\ lastOp = [act |-> "Loop", arg |-> "line"]
    /\ events = <<>>
    /\ \A i \in Mapped : seen[i] # NoVal /\ SameValue(seen[i], last_values[i])

(* The status code a token stands for; -1, which is no code, for a float   *)
(* that is no whole number.                                                *)
CodeOf(tok) ==
    IF tok.k = "int" THEN tok.v
    ELSE IF tok.v % One = 0 THEN tok.v \div One
    ELSE -1

(* C12: the payload of index 0 is the label of the code for the codes 0 to *)
(* 12 and "Unbekannt" for every other code, and a line whose publishes do  *)
(* not raise leaves the bridge in Running.                                 *)
C12_StatusLabel ==
    LET code == CodeOf(script.toks[1])
        label == IF code \in 0..12 THEN ZK_STATUS_MAP[code] ELSE "Unbekannt"
    IN /\ \A e \in ValueEvents :
            e.idx = 0 => e.payload.t = "str" /\ e.payload.s = label
       /\ (lastOp = [act |-> "Loop", arg |-> "line"])
            => /\ seen[0] = StrVal(label)
               /\ (\A e \in ValueEvents : e.out # "raise") => pc = "running"

(* The code 13 was published as "Unbekannt". *)
C12_Witness ==
    /\ script.toks = <<IntTok(13)>>
    /\ pc = "running"
    /\ \E e \in ValueEvents :
          e.idx = 0 /\ e.payload.s = "Unbekannt" /\ e.out = "ok"

(* What the token at index j of the scripted line is to be published as *)
ScriptPayload(j) ==
    LET tok == script.toks[j + 1]
        code == CodeOf(tok)
    IN IF j = 0
       THEN StrVal(IF code \in 0..12 THEN ZK_STATUS_MAP[code] ELSE "Unbekannt")
       ELSE IF tok.k = "int" THEN IntVal(tok.v) ELSE FloatVal(tok.v)

ScriptBad(j) == j < Len(script.toks) /\ script.toks[j + 1].k = "bad"
ScriptGood(j) == j < Len(script.toks) /\ script.toks[j + 1].k # "bad"

(* C13: when the scripted line is processed, the decoded line has one      *)
(* element per token, absent where the token is no number; a mapped index  *)
(* with such a token is not published and keeps its cache entry; every     *)
(* other mapped index that the loop reaches is published exactly when it   *)
(* has no cached value or one that differs; and unless a publish raises    *)
(* the bridge stays in Running with its link and publishes no status.      *)
C13_BadTokenSkipped ==
    [][(lastOp' = [act |-> "Loop", arg |-> "line"]) =>
         /\ Len(parse_pm_line(script)) = Len(script.toks)
         /\ \A i \in 1..Len(script.toks) :
               (parse_pm_line(script)[i] = NoVal) = (script.toks[i].k = "bad")
         /\ \A i \in Mapped :
               ScriptBad(i) =>
                  /\ seen'[i] = NoVal
                  /\ last_values'[i] = last_values[i]
                  /\ \A e \in ValueEvents' : e.idx # i
         /\ \A j \in Mapped :
               ScriptGood(j) =>
                  /\ seen'[j] = ScriptPayload(j)
                  /\ (\A e \in ValueEvents' : e.idx < j => e.out # "raise")
                       => ((\E e \in ValueEvents' :
                               e.idx = j /\ e.payload = ScriptPayload(j))
                            = (\/ last_values[j] = NoVal
                               \/ Differs(last_values[j], ScriptPayload(j))))
         /\ (\A e \in ValueEvents' : e.out # "raise")
               => /\ pc' = "running"
                  /\ tn' = "open"
                  /\ ValueEvents' = {events'[i] : i \in 1..Len(events')}]_vars

(* The status token is no number and the temperature after it is published *)
(* with nothing cached for the status.                                     *)
C13_Witness ==
    /\ script.toks = <<BadTok, FloatTok(One + 1)>>
    /\ lastOp = [act |-> "Loop", arg |-> "line"]
    /\ pc = "running"
    /\ last_values[0] = NoVal
    /\ \E e \in ValueEvents : e.idx = 1 /\ e.out = "ok"
    /\ last_values[1] = FloatVal(One + 1)

DiscoveryAt(idx) == {i \in EvIdx("discovery") : events[i].idx = idx}
MeasureKeys == {"unit_of_measurement", "state_class", "device_class"}
DiscoveryDone == lastOp.act = "Start" /\ pc = "connecting"
OnePerEntry ==
    /\ Cardinality(EvIdx("discovery")) = Cardinality(DOMAIN entries) + 1
    /\ \A idx \in DOMAIN entries : Cardinality(DiscoveryAt(idx)) = 1
    /\ Cardinality(DiscoveryAt(-1)) = 1
    /\ \A i \in DiscoveryAt(-1) :
          events[i].keys = BaseKeys \cup {"payload_on", "payload_off", "device_class"}

(* The rule of the device class: temperature, pressure, humidity by label, *)
(* power by label when the unit is none of the three.                      *)
Inferred(entry) ==
    \/ entry.unit \in {"C", "bar"}
    \/ entry.unit = "%" /\ (In("Feuchte", entry.label) \/ In("Luftfeuchte", entry.label))
    \/ entry.unit \notin {"C", "bar", "%"} /\ In("Leistung", entry.label)

(* C14 as stated: after discovery, one sensor descriptor per entry and one *)
(* connectivity descriptor; every descriptor of an index other than 0 has  *)
(* the unit, state-class and device-class fields, that of index 0 none.    *)
C14_AllThreeFields ==
    DiscoveryDone =>
       /\ OnePerEntry
       /\ \A idx \in DOMAIN entries : \A i \in DiscoveryAt(idx) :
             IF idx # 0 THEN MeasureKeys \subseteq events[i].keys
             ELSE MeasureKeys \cap events[i].keys = {}

(* C14 amended: after discovery, one sensor descriptor per entry and one   *)
(* connectivity descriptor; a descriptor of an index other than 0 has the  *)
(* unit and state-class fields, and the device-class field exactly when a  *)
(* class is inferred from unit and label; that of index 0 has none.        *)
C14_DeviceClassWhenInferred ==
    DiscoveryDone =>
       /\ OnePerEntry
       /\ \A idx \in DOMAIN entries : \A i \in DiscoveryAt(idx) :
             IF idx # 0
             THEN /\ events[i].keys \ MeasureKeys = BaseKeys
                  /\ "unit_of_measurement" \in events[i].keys
                  /\ "state_class" \in events[i].keys
                  /\ ("device_class" \in events[i].keys) = Inferred(entries[idx])
             ELSE events[i].keys = BaseKeys

(* Discovery is done for a numeric entry with no class: a percentage that  *)
(* is a power by its label.                                                *)
C14_Witness ==
    /\ DiscoveryDone
    /\ entries[1].unit = "%"
    /\ In("Leistung", entries[1].label)
    /\ entries[0].unit = "C"
    /\ \E i \in DiscoveryAt(1) :
          events[i].keys = BaseKeys \cup {"unit_of_measurement", "state_class"}

(* C15: when a line is processed, a mapped index with a value and a cached *)
(* value that the loop reaches is published exactly when: one of the two   *)
(* is a float and they are at least the tolerance apart, or neither is a   *)
(* float and they are not equal.                                           *)
C15_ComparisonRule ==
    [][(lastOp' = [act |-> "Loop", arg |-> "line"]) =>
         \A idx \in Mapped :
            (/\ seen'[idx] # NoVal
             /\ last_values[idx] # NoVal
             /\ \A e \in ValueEvents' : e.idx < idx => e.out # "raise")
            => LET cached == last_values[idx]
                   new == seen'[idx]
                   published == \E e \in ValueEvents' :
                                    e.idx = idx /\ e.payload = new
               IN IF cached.t = "float" \/ new.t = "float"
                  THEN published = (Abs(cached.v - new.v) >= FLOAT_EPS)
                  ELSE published = (cached # new)]_vars

(* A float one unit below the tolerance from the cached one was suppressed, *)
(* and in the same line the status label was published over another one.   *)
C15_Witness ==
    /\ lastOp = [act |-> "Loop", arg |-> "line"]
    /\ seen[1] = FloatVal(One + 1)
    /\ last_values[1] = FloatVal(One)
    /\ \A e \in ValueEvents : e.idx = 0
    /\ \E e \in ValueEvents : e.prior.t = "str" /\ e.payload.t = "str"

(* C16: a step of start sets the last will and publishes the birth message *)
(* first and only discovery descriptors after it, before any Terminal Link *)
(* exists; discovery is published by start alone and once; every Terminal  *)
(* Link connect attempt comes after discovery, with the Bus Link connected *)
(* and the will set; and a value is published only in Running over an open *)
(* Terminal Link.                                                          *)
C16_StartupOrder ==
    [][/\ (lastOp'.act = "Start") =>
             /\ pc = "init" /\ discoveries = 0
             /\ tn' = "none"
             /\ will' = "offline"
             /\ (events' # <<>>) =>
                   /\ events'[1].topic = "status"
                   /\ events'[1].payload = StrVal("online")
                   /\ \A i \in 2..Len(events') : events'[i].topic = "discovery"
             /\ (pc' = "connecting") =>
                   /\ Len(events') = Cardinality(DOMAIN entries) + 2
                   /\ events'[1].out # "raise"
                   /\ discoveries' = 1
       /\ (\E i \in 1..Len(events') : events'[i].topic = "discovery")
             => lastOp'.act = "Start"
       /\ (lastOp'.act = "ConnectAttempt") =>
             /\ discoveries = 1
             /\ will = "offline"
             /\ mqtt = "connected"
       /\ (tn' # tn /\ tn = "none") =>
             /\ lastOp'.act = "ConnectAttempt" /\ pc = "connecting"
       /\ (ValueEvents' # {}) =>
             /\ pc = "running" /\ tn = "open" /\ discoveries = 1
       /\ discoveries' >= discoveries /\ discoveries' <= 1
       /\ (pc' \in {"connecting", "running", "reconnecting", "stopped"})
             => discoveries' = 1]_vars

(* start has connected the Bus Link and published birth and discovery, and *)
(* no Terminal Link exists yet.                                            *)
C16_Witness ==
    /\ lastOp = [act |-> "Start", arg |-> "ok"]
    /\ pc = "connecting"
    /\ tn = "none"
    /\ will = "offline"
    /\ discoveries = 1
    /\ events[1].topic = "status"
    /\ events[Len(events)].topic = "discovery"

(* C17: the bridge opens a Terminal Link only in a connect attempt, and    *)
(* only when it holds none or one whose close it has attempted; a pass of  *)
(* the loop whose read fails ends in Reconnecting with the close attempted *)
(* and opens nothing; and while Reconnecting the old link is never open.   *)
C17_OneLiveLink ==
    [][/\ (lastOp'.act = "ConnectAttempt") =>
             /\ tn \in {"none", "closed", "stale"}
             /\ (pc = "reconnecting") => tn \in {"closed", "stale"}
       /\ (tn' = "open" /\ tn # "open") => lastOp'.act = "ConnectAttempt"
       /\ (lastOp'.act = "Loop") =>
             /\ tn = "open"
             /\ (pc' = "reconnecting") = (tn' \in {"closed", "stale"})
             /\ (pc' = "running") = (tn' = "open")
       /\ (lastOp' = [act |-> "Loop", arg |-> "fail"]) =>
             /\ pc' = "reconnecting"
             /\ tn' \in {"closed", "stale"}
       /\ (pc' = "reconnecting") => tn' \in {"closed", "stale"}
       /\ (pc' = "running") => tn' = "open"]_vars

(* A read failed, the close of the link raised and was ignored, and the    *)
(* bridge is Reconnecting.                                                 *)
C17_Witness ==
    /\ lastOp = [act |-> "Loop", arg |-> "fail"]
    /\ pc = "reconnecting"
    /\ tn = "stale"

(* C18: whenever a step publishes a channel value, the last status that    *)
(* was published with success before that step is "online".                *)
C18_LastDeliveredOnline ==
    [][(ValueEvents' # {}) => delivered = "online"]_vars

(* The value is the cached one, or one of the two is a float and they are  *)
(* less than the tolerance apart.                                          *)
WithinTolerance(cached, new) ==
    \/ cached = new
    \/ /\ cached.t = "float" \/ new.t = "float"
       /\ cached.t # "str" /\ new.t # "str"
       /\ Abs(cached.v - new.v) < FLOAT_EPS

(* C19: after a step that processes a line with every publish succeeding,  *)
(* the cached value of every mapped index with a value in the line is that *)
(* value or within the tolerance of it, and the cached value is one that   *)
(* was published: it is the one cached before, or the step published it.   *)
C19_NoDrift ==
    [][(/\ lastOp' = [act |-> "Loop", arg |-> "line"]
        /\ \A e \in ValueEvents' : e.out = "ok") =>
         \A idx \in Mapped :
            (seen'[idx] # NoVal) =>
               /\ WithinTolerance(last_values'[idx], seen'[idx])
               /\ \/ last_values'[idx] = last_values[idx]
                  \/ \E e \in ValueEvents' :
                        e.idx = idx /\ e.payload = last_values'[idx]]_vars

(* The line's temperature is one unit above the published one and was not  *)
(* published, while its status was, with success.                          *)
C19_Witness ==
    /\ lastOp = [act |-> "Loop", arg |-> "line"]
    /\ last_values[1] = FloatVal(One + 1)
    /\ seen[1] = FloatVal(One + 2)
    /\ \E e \in ValueEvents : e.idx = 0 /\ e.out = "ok"
    /\ \A e \in ValueEvents : e.idx = 0 /\ e.out = "ok"

(* C20: once the loop condition is found false the only step is cleanup:   *)
(* it publishes the status "offline" and nothing else, which makes         *)
(* "offline" the last status the bridge has published, and after it the    *)
(* bridge takes no step at all.                                            *)
C20_OfflineLast ==
    [][/\ pc # "stopped"
       /\ (pc = "running" /\ ~running) => lastOp'.act = "Cleanup"
       /\ (lastOp'.act = "Cleanup" \/ pc' = "stopped") =>
             /\ ~running
             /\ lastOp'.act = "Cleanup"
             /\ pc' = "stopped"
             /\ Len(events') = 1
             /\ events'[1].topic = "status"
             /\ events'[1].payload = StrVal("offline")
             /\ attempted' = "offline"
             /\ last_values' = last_values]_vars

(* The stop request arrived while Reconnecting; the reconnect published    *)
(* "online", and cleanup came straight after it.                           *)
C20_Witness ==
    /\ pc = "stopped"
    /\ lastOp = [act |-> "Cleanup", arg |-> "ConnectAttempt"]
    /\ reconLog = <<"offline", "online">>
    /\ attempted = "offline"
    /\ events[1].payload = StrVal("offline")

====
